---- MODULE Spec2Model ----
(***************************************************************************)
(* ExpressionWhizz: the tokenizer (tokenize.c), the recursive-descent      *)
(* parser (parse.c and parse1.c), the expression tree (expr_tree.c) and    *)
(* the variable dictionary (cdict.c).                                      *)
(*                                                                         *)
(* The C functions are translated as operators over an explicit machine    *)
(* state: the token list, the error-message buffer and the malloc heap.    *)
(***************************************************************************)
EXTENDS Integers, Sequences, FiniteSets, TLC

VARIABLES
  pc,       \* position of the driver: which call has returned
  variant,  \* which parser source is linked: "parse.c" or "parse1.c"
  line,     \* the input line handed to the tokenizer
  input,    \* the token list handed to Parse (kept for reference)
  tokens,   \* the token list as Parse left it
  errmsg,   \* the caller's error-message buffer
  heap,     \* malloc'd expression-tree nodes
  tree,     \* what Parse / the tree under evaluation is
  expr_buf, \* the buffer the expression is rendered into
  buf_sz,   \* that buffer's capacity
  str_len,  \* what ET_tree2string returned
  dict,     \* the variable dictionary
  result,   \* what ET_evaluate returned
  lines,    \* how many lines have been read
  stored    \* what each key was last stored with, if not deleted since

vars == <<pc, variant, line, input, tokens, errmsg, heap, tree, expr_buf, buf_sz, str_len,
          dict, result, lines, stored>>

(***************************************************************************)
(* Bounds of the model.                                                    *)
(***************************************************************************)
MaxLen == 3        \* every token list of at most this many tokens is parsed
MaxOps == 3        \* operand (op operand)* lists with at most this many ops
MaxAbs == 1000     \* magnitude of the doubles the model tracks
MaxLines == 2      \* lines evaluated against one dictionary
MaxNeg == 3        \* leading '-' tokens before an operand
MaxChars == 3      \* every line of at most this many characters is tokenized
MaxPad == 32       \* characters before a long name
MaxName == 33      \* length of a long name
MaxBuf == 20       \* capacity of the buffers trees are rendered into
MaxText == 4       \* every line of at most this many characters is run through main
MaxCapacity == 16  \* CD_store is called on dictionaries of at most this capacity
MaxDeleted == 2    \* CD_delete is called on dictionaries with fewer deleted slots

(***************************************************************************)
(* Tokens (token.h).                                                       *)
(***************************************************************************)
TokenType == {"TOK_VALUE", "TOK_SYMBOL", "TOK_EQUAL", "TOK_PLUS", "TOK_MINUS",
              "TOK_MULTIPLY", "TOK_DIVIDE", "TOK_POWER", "TOK_OPEN_PAREN",
              "TOK_CLOSE_PAREN", "TOK_END"}

TT_to_str(tt) ==
  CASE tt = "TOK_VALUE"       -> "VALUE"
    [] tt = "TOK_PLUS"        -> "PLUS"
    [] tt = "TOK_MINUS"       -> "MINUS"
    [] tt = "TOK_MULTIPLY"    -> "MULTIPLY"
    [] tt = "TOK_DIVIDE"      -> "DIVIDE"
    [] tt = "TOK_POWER"       -> "POWER"
    [] tt = "TOK_OPEN_PAREN"  -> "OPEN_PAREN"
    [] tt = "TOK_CLOSE_PAREN" -> "CLOSE_PAREN"
    [] tt = "TOK_SYMBOL"      -> "SYMBOL"
    [] tt = "TOK_EQUAL"       -> "EQUAL"
    [] tt = "TOK_END"         -> "(end)"

\* A token: the type and the union's payload (value or symbol).
Token(type, value, symbol) == [type |-> type, value |-> value, symbol |-> symbol]

\* The error buffer: the format last printed into it and the format's
\* argument (a sequence: empty, a token kind's name, or a symbol's characters);
\* NoMsg is the empty string.
Msg(fmt, arg) == [fmt |-> fmt, arg |-> arg]
NoMsg == Msg("", <<>>)

(***************************************************************************)
(* The token list's accessors (tokenize.c over clist).                     *)
(***************************************************************************)
CL_length(list) == Len(list)
CL_nth(list, pos) == list[pos + 1]
CL_pop(list) == Tail(list)
CL_append(list, elem) == Append(list, elem)

TOK_next_type(toks) ==
  IF CL_length(toks) = 0 THEN "TOK_END" ELSE CL_nth(toks, 0).type

TOK_next(toks) == CL_nth(toks, 0)

TOK_next_Assignement(toks) == CL_nth(toks, 1)

TOK_next_next_type(toks) ==
  IF CL_length(toks) < 2 THEN "TOK_END" ELSE CL_nth(toks, 1).type

TOK_consume(toks) == IF CL_length(toks) > 0 THEN CL_pop(toks) ELSE toks

(***************************************************************************)
(* The malloc heap: live is the set of node addresses in use; malloc hands *)
(* out the lowest free address.  twice records the addresses free() was    *)
(* called on while they were not live, strs counts the live strdup'd       *)
(* symbol strings.                                                         *)
(***************************************************************************)
EmptyHeap == [live |-> {}, twice |-> {}, strs |-> 0]

NextAddr(h) ==
  CHOOSE a \in 1..(Cardinality(h.live) + 1) :
    a \notin h.live /\ \A b \in 1..(a - 1) : b \in h.live

malloc(h) == [h EXCEPT !.live = @ \cup {NextAddr(h)}]

free(h, id) ==
  [h EXCEPT !.live = @ \ {id},
            !.twice = IF id \in h.live THEN @ ELSE @ \cup {id}]

(***************************************************************************)
(* Expression trees (expr_tree.c).  NULL is the absent tree.               *)
(***************************************************************************)
ExprNodeType == {"VALUE", "SYMBOL", "OP_ASSIGN", "UNARY_NEGATE", "OP_ADD",
                 "OP_SUB", "OP_MUL", "OP_DIV", "OP_POWER"}

NULL == [type |-> "NULL"]

IsLeaf(t) == t.type \in {"VALUE", "SYMBOL"}

ET_value(h, value) ==
  [node |-> [id |-> NextAddr(h), type |-> "VALUE", value |-> value],
   heap |-> malloc(h)]

ET_node(h, op, left, right) ==
  [node |-> [id |-> NextAddr(h), type |-> op, left |-> left, right |-> right],
   heap |-> malloc(h)]

ET_symbol(h, symbol) ==
  [node |-> [id |-> NextAddr(h), type |-> "SYMBOL", symbol |-> symbol],
   heap |-> [malloc(h) EXCEPT !.strs = @ + 1]]

\* ET_free that releases the root node only
ET_free_shallow(h, t) == IF t = NULL THEN h ELSE free(h, t.id)

RECURSIVE ET_free(_, _)
ET_free(h, t) ==
  IF t = NULL THEN h
  ELSE IF t.type = "VALUE" THEN free(h, t.id)
  ELSE IF t.type = "SYMBOL" THEN free([h EXCEPT !.strs = @ - 1], t.id)
  ELSE free(ET_free(ET_free(h, t.left), t.right), t.id)

RECURSIVE ET_count(_)
ET_count(t) ==
  IF t = NULL THEN 0
  ELSE IF IsLeaf(t) THEN 1
  ELSE 1 + ET_count(t.left) + ET_count(t.right)

\* ET_depth that follows the left child only
RECURSIVE ET_depth_left(_)
ET_depth_left(t) ==
  IF t = NULL THEN 0
  ELSE IF IsLeaf(t) THEN 1
  ELSE 1 + ET_depth_left(t.left)

RECURSIVE ET_depth(_)
ET_depth(t) ==
  IF t = NULL THEN 0
  ELSE IF IsLeaf(t) THEN 1
  ELSE LET left_depth == ET_depth(t.left)
           right_depth == ET_depth(t.right)
       IN 1 + (IF left_depth > right_depth THEN left_depth ELSE right_depth)

(***************************************************************************)
(* Doubles.  A double is an integer of magnitude at most MaxAbs (k "num"), *)
(* the not-a-number value (k "nan"), or a double the model does not track  *)
(* (k "oor": a fraction, or a magnitude above MaxAbs).  Executions that    *)
(* compute an untracked double are cut off by the guards.                  *)
(***************************************************************************)
Num(n) == [k |-> "num", v |-> n]
NAN == [k |-> "nan", v |-> 0]
OOR == [k |-> "oor", v |-> 0]

isnan(d) == d.k = "nan"
IsZero(d) == d.k = "num" /\ d.v = 0

Abs(n) == IF n < 0 THEN -n ELSE n
Norm(n) == IF Abs(n) > MaxAbs THEN OOR ELSE Num(n)

Arith(a, b, n) ==
  IF a.k = "oor" \/ b.k = "oor" THEN OOR
  ELSE IF isnan(a) \/ isnan(b) THEN NAN
  ELSE Norm(n)

DAdd(a, b) == Arith(a, b, a.v + b.v)
DSub(a, b) == Arith(a, b, a.v - b.v)
DMul(a, b) == Arith(a, b, a.v * b.v)
DNeg(a) == Arith(a, a, -a.v)

\* a / b for b # 0
DDiv(a, b) ==
  IF a.k = "oor" \/ b.k = "oor" THEN OOR
  ELSE IF isnan(a) \/ isnan(b) THEN NAN
  ELSE IF a.v % Abs(b.v) = 0
       THEN Norm((IF b.v < 0 THEN -a.v ELSE a.v) \div Abs(b.v))
  ELSE OOR

RECURSIVE IntPow(_, _)
IntPow(a, n) ==
  IF n = 0 THEN Num(1) ELSE DMul(Num(a), IntPow(a, n - 1))

\* pow(3): pow(x, 0) and pow(1, y) are 1 even for a NaN operand.
pow(a, b) ==
  IF IsZero(b) \/ (a.k = "num" /\ a.v = 1) THEN Num(1)
  ELSE IF a.k = "oor" \/ b.k = "oor" THEN OOR
  ELSE IF isnan(a) \/ isnan(b) THEN NAN
  ELSE IF b.v > 0 THEN (IF Abs(a.v) > 1 /\ b.v > MaxAbs THEN OOR ELSE IntPow(a.v, b.v))
  ELSE IF a.v = -1 THEN (IF b.v % 2 = 0 THEN Num(1) ELSE Num(-1))
  ELSE OOR

(***************************************************************************)
(* The dictionary (cdict.c): open addressing over capacity slots.          *)
(***************************************************************************)
DEFAULT_DICT_CAPACITY == 8

Alphabet == <<"a", "b", "c", "d", "e", "f", "g", "h", "i", "j", "k", "l", "m",
              "n", "o", "p", "q", "r", "s", "t", "u", "v", "w", "x", "y", "z">>

Digits == <<"0", "1", "2", "3", "4", "5", "6", "7", "8", "9">>

\* the character code of a lower-case letter, a digit or the underscore
Ord(c) ==
  IF c = "_" THEN 95
  ELSE IF \E d \in 1..Len(Digits) : Digits[d] = c
  THEN 47 + (CHOOSE d \in 1..Len(Digits) : Digits[d] = c)
  ELSE 96 + (CHOOSE i \in 1..Len(Alphabet) : Alphabet[i] = c)

\* Unsigned 32-bit integers are kept as two 16-bit halves.
Half == 2^16
U32(hi, lo) == [hi |-> hi % Half, lo |-> lo % Half]

RECURSIVE Xor(_, _)
Xor(a, b) ==
  IF a = 0 THEN b
  ELSE IF b = 0 THEN a
  ELSE 2 * Xor(a \div 2, b \div 2) + ((a + b) % 2)

\* 1000003 * x, modulo 2^32 (1000003 = 15 * 65536 + 16963)
Mul1000003(x) ==
  LET low == x.lo * 16963
  IN U32(x.hi * 16963 + x.lo * 15 + (low \div Half), low)

XorU32(x, c) == U32(Xor(x.hi, c \div Half), Xor(x.lo, c % Half))

ModU32(x, m) == (((x.hi % m) * (Half % m)) + (x.lo % m)) % m

RECURSIVE HashLoop(_, _, _)
HashLoop(x, str, i) ==
  IF i > Len(str) THEN x
  ELSE HashLoop(XorU32(Mul1000003(x), Ord(str[i])), str, i + 1)

CD_hash(str, capacity) ==
  IF Len(str) = 0 THEN 0
  ELSE LET c == Ord(str[1])
           x0 == U32((c * 128) \div Half, c * 128)
       IN ModU32(XorU32(HashLoop(x0, str, 1), Len(str)), capacity)

UnusedSlot == [status |-> "SLOT_UNUSED", key |-> <<>>, value |-> Num(0)]

CD_new == [num_stored |-> 0, num_deleted |-> 0,
           capacity |-> DEFAULT_DICT_CAPACITY,
           slot |-> [i \in 1..DEFAULT_DICT_CAPACITY |-> UnusedSlot]]

\* REHASH_THRESHOLD is 0.6
OverThreshold(d) == 10 * (d.num_stored + d.num_deleted) > 6 * d.capacity

\* the probe sequence's slot index (1-based) of step i
Probe(d, key, i) == ((CD_hash(key, d.capacity) + i) % d.capacity) + 1

RECURSIVE ContainsLoop(_, _, _)
ContainsLoop(d, key, i) ==
  IF i >= d.capacity THEN FALSE
  ELSE LET s == d.slot[Probe(d, key, i)]
       IN IF s.status = "SLOT_UNUSED" THEN FALSE
          ELSE IF s.status = "SLOT_IN_USE" /\ s.key = key THEN TRUE
          ELSE ContainsLoop(d, key, i + 1)

CD_contains(d, key) == ContainsLoop(d, key, 0)

RECURSIVE RetrieveLoop(_, _, _)
RetrieveLoop(d, key, i) ==
  IF i >= d.capacity THEN NAN
  ELSE LET s == d.slot[Probe(d, key, i)]
       IN IF s.status = "SLOT_UNUSED" THEN NAN
          ELSE IF s.status = "SLOT_IN_USE" /\ s.key = key THEN s.value
          ELSE RetrieveLoop(d, key, i + 1)

\* CD_retrieve that answers 0 for a key it does not find
CD_retrieve_zero(d, key) ==
  IF CD_contains(d, key) THEN RetrieveLoop(d, key, 0) ELSE Num(0)

CD_retrieve(d, key) == RetrieveLoop(d, key, 0)

RECURSIVE StoreLoop(_, _, _, _), CD_rehash(_), RehashLoop(_, _, _)

\* CD_store after its assertions
StoreLoop(d, key, value, i) ==
  IF i >= d.capacity THEN d
  ELSE LET p == Probe(d, key, i)
           s == d.slot[p]
       IN IF s.status = "SLOT_IN_USE" /\ s.key = key
          THEN [d EXCEPT !.slot[p].value = value]
          ELSE IF s.status # "SLOT_UNUSED"
          THEN StoreLoop(d, key, value, i + 1)
          ELSE LET d1 == [d EXCEPT !.slot[p] = [status |-> "SLOT_IN_USE",
                                               key |-> key, value |-> value],
                                   !.num_stored = @ + 1]
               IN IF OverThreshold(d1) THEN CD_rehash(d1) ELSE d1

RehashLoop(d, old, i) ==
  IF i > Len(old) THEN d
  ELSE IF old[i].status = "SLOT_IN_USE"
  THEN RehashLoop(StoreLoop(d, old[i].key, old[i].value, 0), old, i + 1)
  ELSE RehashLoop(d, old, i + 1)

CD_rehash(d) ==
  RehashLoop([num_stored |-> 0, num_deleted |-> 0,
              capacity |-> d.capacity * 2,
              slot |-> [i \in 1..(d.capacity * 2) |-> UnusedSlot]],
             d.slot, 1)

\* assert(value): a zero value aborts the process
CD_store(d, key, value) ==
  IF IsZero(value) THEN [dict |-> d, aborted |-> TRUE]
  ELSE [dict |-> StoreLoop(d, key, value, 0), aborted |-> FALSE]

RECURSIVE DeleteLoop(_, _, _)
DeleteLoop(d, key, i) ==
  IF i >= d.capacity THEN d
  ELSE LET p == Probe(d, key, i)
           s == d.slot[p]
       IN IF s.status = "SLOT_UNUSED" THEN d
          ELSE IF s.status = "SLOT_IN_USE" /\ s.key = key
          THEN [d EXCEPT !.slot[p].status = "SLOT_DELETED",
                         !.num_stored = @ - 1, !.num_deleted = @ + 1]
          ELSE DeleteLoop(d, key, i + 1)

\* CD_delete that marks the slot unused instead of deleted
RECURSIVE DeleteLoopUnused(_, _, _)
DeleteLoopUnused(d, key, i) ==
  IF i >= d.capacity THEN d
  ELSE LET p == Probe(d, key, i)
           s == d.slot[p]
       IN IF s.status = "SLOT_UNUSED" THEN d
          ELSE IF s.status = "SLOT_IN_USE" /\ s.key = key
          THEN [d EXCEPT !.slot[p].status = "SLOT_UNUSED",
                         !.num_stored = @ - 1]
          ELSE DeleteLoopUnused(d, key, i + 1)

CD_delete_unused(d, key) == DeleteLoopUnused(d, key, 0)

CD_delete(d, key) == DeleteLoop(d, key, 0)

\* the slots of status st
SlotsOf(d, st) == {i \in 1..d.capacity : d.slot[i].status = st}

\* the assertions of CD_size (DEBUG is defined)
CD_size_asserts(d) ==
  /\ Cardinality(SlotsOf(d, "SLOT_IN_USE")) = d.num_stored
  /\ Cardinality(SlotsOf(d, "SLOT_DELETED")) = d.num_deleted

CD_size(d) == d.num_stored

\* The keys the dictionary is exercised with: a, q and i hash to slot 0 of
\* 8, a and q to slot 0 of 16 as well.
DictKeys == {<<"a">>, <<"q">>, <<"i">>}
Absent == [k |-> "absent", v |-> 0]
NoKeys == [key \in DictKeys |-> Absent]

(***************************************************************************)
(* Evaluation (expr_tree.c).  es = [dict, errmsg, aborted, exact, oracle]: *)
(* the dictionary, the error buffer, whether the process has aborted,      *)
(* whether every double computed so far is tracked, and what reading the   *)
(* symbol field of a node that is no symbol leaf yields.                   *)
(***************************************************************************)
Val(val, es) == [val |-> val, es |-> es]

Track(val, es) == Val(val, [es EXCEPT !.exact = @ /\ val.k # "oor"])

Store(es, key, value) ==
  LET r == CD_store(es.dict, key, value)
  IN [es EXCEPT !.dict = r.dict, !.aborted = r.aborted]

\* ET_evaluate without the test of the divisor: 0/0 is NaN with no message,
\* any other quotient by zero is an infinity
RECURSIVE ET_evaluate_unguarded_division(_, _)
ET_evaluate_unguarded_division(t, es) ==
  IF es.aborted \/ t = NULL THEN Val(Num(0), es)
  ELSE IF t.type = "VALUE" THEN Val(t.value, es)
  ELSE IF t.type = "SYMBOL"
  THEN LET val == CD_retrieve(es.dict, t.symbol)
       IN IF isnan(val)
          THEN Val(NAN, [es EXCEPT !.errmsg = Msg("Undefined variable: %s", t.symbol)])
          ELSE Val(val, es)
  ELSE IF t.type = "OP_ASSIGN"
  THEN LET r == ET_evaluate_unguarded_division(t.right, es)
       IN IF r.es.aborted THEN r
          ELSE IF t.left # NULL /\ t.left.type = "SYMBOL"
          THEN Val(r.val, Store(r.es, t.left.symbol, r.val))
          ELSE IF t.left = NULL \/ r.es.oracle.crash
          THEN Val(r.val, [r.es EXCEPT !.aborted = TRUE])
          ELSE Val(r.val, Store(r.es, r.es.oracle.key, r.val))
  ELSE LET l == ET_evaluate_unguarded_division(t.left, es)
           r == ET_evaluate_unguarded_division(t.right, l.es)
       IN IF r.es.aborted THEN r
          ELSE IF t.type = "OP_ADD" THEN Track(DAdd(l.val, r.val), r.es)
          ELSE IF t.type = "OP_SUB" THEN Track(DSub(l.val, r.val), r.es)
          ELSE IF t.type = "OP_MUL" THEN Track(DMul(l.val, r.val), r.es)
          ELSE IF t.type = "OP_DIV"
          THEN IF IsZero(r.val)
               THEN Track(IF IsZero(l.val) \/ isnan(l.val) THEN NAN ELSE OOR, r.es)
               ELSE Track(DDiv(l.val, r.val), r.es)
          ELSE IF t.type = "OP_POWER" THEN Track(pow(l.val, r.val), r.es)
          ELSE IF t.type = "UNARY_NEGATE" THEN Track(DNeg(l.val), r.es)
          ELSE Val(NAN, [r.es EXCEPT !.errmsg = Msg("Error: Invalid operator", <<>>)])

RECURSIVE ET_evaluate(_, _)
ET_evaluate(t, es) ==
  IF es.aborted \/ t = NULL THEN Val(Num(0), es)
  ELSE IF t.type = "VALUE" THEN Val(t.value, es)
  ELSE IF t.type = "SYMBOL"
  THEN LET val == CD_retrieve(es.dict, t.symbol)
       IN IF isnan(val)
          THEN Val(NAN, [es EXCEPT !.errmsg = Msg("Undefined variable: %s", t.symbol)])
          ELSE Val(val, es)
  ELSE IF t.type = "OP_ASSIGN"
  THEN LET r == ET_evaluate(t.right, es)
       IN IF r.es.aborted THEN r
          ELSE IF t.left # NULL /\ t.left.type = "SYMBOL"
          THEN Val(r.val, Store(r.es, t.left.symbol, r.val))
          ELSE IF t.left = NULL \/ r.es.oracle.crash
          THEN Val(r.val, [r.es EXCEPT !.aborted = TRUE])
          ELSE Val(r.val, Store(r.es, r.es.oracle.key, r.val))
  ELSE LET l == ET_evaluate(t.left, es)
           r == ET_evaluate(t.right, l.es)
       IN IF r.es.aborted THEN r
          ELSE IF t.type = "OP_ADD" THEN Track(DAdd(l.val, r.val), r.es)
          ELSE IF t.type = "OP_SUB" THEN Track(DSub(l.val, r.val), r.es)
          ELSE IF t.type = "OP_MUL" THEN Track(DMul(l.val, r.val), r.es)
          ELSE IF t.type = "OP_DIV"
          THEN IF IsZero(r.val)
               THEN Val(NAN, [r.es EXCEPT !.errmsg = Msg("Error: Division by zero", <<>>)])
               ELSE Track(DDiv(l.val, r.val), r.es)
          ELSE IF t.type = "OP_POWER" THEN Track(pow(l.val, r.val), r.es)
          ELSE IF t.type = "UNARY_NEGATE" THEN Track(DNeg(l.val), r.es)
          ELSE Val(NAN, [r.es EXCEPT !.errmsg = Msg("Error: Invalid operator", <<>>)])

(***************************************************************************)
(* Stringification (expr_tree.c).  Memory is a function from the byte      *)
(* offsets written so far to characters; NUL is the terminator.  A call    *)
(* works on the sz bytes at offset off.                                    *)
(***************************************************************************)
NUL == "NUL"

\* ExprNodeType_to_char without the case of OP_ASSIGN
ExprNodeType_to_char_no_assign(ent) ==
  CASE ent = "OP_ADD" -> "+"
    [] ent = "OP_SUB" -> "-"
    [] ent = "OP_MUL" -> "*"
    [] ent = "OP_DIV" -> "/"
    [] ent = "OP_POWER" -> "^"
    [] ent = "UNARY_NEGATE" -> "-"
    [] OTHER -> "?"

ExprNodeType_to_char(ent) ==
  CASE ent = "OP_ADD" -> "+"
    [] ent = "OP_SUB" -> "-"
    [] ent = "OP_MUL" -> "*"
    [] ent = "OP_DIV" -> "/"
    [] ent = "OP_POWER" -> "^"
    [] ent = "OP_ASSIGN" -> "="
    [] ent = "UNARY_NEGATE" -> "-"
    [] OTHER -> "?"

DigitChars == <<"0", "1", "2", "3", "4", "5", "6", "7", "8", "9">>

RECURSIVE Decimal(_)
Decimal(n) ==
  IF n < 10 THEN <<DigitChars[n + 1]>>
  ELSE Append(Decimal(n \div 10), DigitChars[(n % 10) + 1])

\* printf's %g of a double: an integer below 10^6 in magnitude prints as its
\* decimal digits
FormatG(d) ==
  IF isnan(d) THEN <<"n", "a", "n">>
  ELSE IF d.v < 0 THEN <<"-">> \o Decimal(-d.v)
  ELSE Decimal(d.v)

\* buf[i] = c
Poke(mem, i, c) == [j \in (DOMAIN mem) \cup {i} |-> IF j = i THEN c ELSE mem[j]]

RECURSIVE PokeChars(_, _, _, _)
PokeChars(mem, off, chars, k) ==
  IF k = 0 THEN mem
  ELSE Poke(PokeChars(mem, off, chars, k - 1), off + k - 1, chars[k])

\* snprintf(buf + off, sz, "%s", chars) for sz > 0: at most sz - 1
\* characters and the terminator are written, the full length is returned
snprintf(mem, off, sz, chars) ==
  LET k == IF Len(chars) < sz - 1 THEN Len(chars) ELSE sz - 1
  IN [len |-> Len(chars), mem |-> Poke(PokeChars(mem, off, chars, k), off + k, NUL)]

Str(len, mem) == [len |-> len, mem |-> mem]

RECURSIVE ET_tree2string(_, _, _, _)
ET_tree2string(t, mem, off, sz) ==
  IF sz = 0 \/ t = NULL THEN Str(0, mem)
  ELSE IF t.type = "VALUE" THEN snprintf(mem, off, sz, FormatG(t.value))
  ELSE IF t.type = "SYMBOL" THEN snprintf(mem, off, sz, t.symbol)
  ELSE IF t.type = "UNARY_NEGATE"
  THEN IF sz < 2 THEN Str(0, mem)
       ELSE LET m1 == Poke(mem, off, "(")
                minus == 1 < sz - 1
                m2 == IF minus THEN Poke(m1, off + 1, ExprNodeType_to_char("UNARY_NEGATE"))
                      ELSE m1
                len2 == IF minus THEN 2 ELSE 1
                child == ET_tree2string(t.left, m2, off + len2, sz - len2)
                len3 == len2 + child.len
            IN IF len3 >= sz
               THEN Str(sz - 1, Poke(Poke(child.mem, off + sz - 1, "$"), off + sz - 2, NUL))
               ELSE LET close == len3 < sz - 1
                        m4 == IF close THEN Poke(child.mem, off + len3, ")") ELSE child.mem
                        len4 == IF close THEN len3 + 1 ELSE len3
                    IN Str(len4, Poke(m4, off + len4, NUL))
  ELSE IF sz < 3 THEN Str(0, mem)
  ELSE LET m1 == Poke(mem, off, "(")
           left == ET_tree2string(t.left, m1, off + 1, sz - 1)
           len1 == 1 + left.len
       IN IF len1 >= sz THEN Str(len1, left.mem)
          ELSE LET m2 == Poke(left.mem, off + len1, ExprNodeType_to_char(t.type))
                   len2 == len1 + 1
                   right == ET_tree2string(t.right, m2, off + len2, sz - len2)
                   len3 == len2 + right.len
               IN IF len3 >= sz THEN Str(len3, right.mem)
                  ELSE Str(len3 + 1,
                           Poke(Poke(right.mem, off + len3, ")"), off + len3 + 1, NUL))

\* the C string at offset 0: the characters before the first terminator
RECURSIVE CString(_, _)
CString(mem, i) ==
  IF i \notin DOMAIN mem \/ mem[i] = NUL THEN <<>>
  ELSE <<mem[i]>> \o CString(mem, i + 1)

EXPR_BUF_SIZE == 1024

(***************************************************************************)
(* The parser (parse1.c, and parse.c where v = "parse.c").  A rule takes   *)
(* the machine state st = [tokens, errmsg, heap] and returns its tree and  *)
(* the state it leaves.                                                    *)
(***************************************************************************)
Ret(ret, st) == [ret |-> ret, st |-> st]

Consume(st) == [st EXCEPT !.tokens = TOK_consume(@)]

SetErr(st, fmt, arg) == [st EXCEPT !.errmsg = Msg(fmt, arg)]

Alloc(st, a) == Ret(a.node, [st EXCEPT !.heap = a.heap])

Free(st, t) == [st EXCEPT !.heap = ET_free(@, t)]

\* A rule calls a rule through Rule(name, v, ret, st); ret is the tree built
\* so far, for the loops of additive, multiplicative and exponential.
RECURSIVE Rule(_, _, _, _)

\* parse.c: the right-hand side is an additive; a failed one is reported.
assignment_parse(v, st) ==
  IF TOK_next_type(st.tokens) = "TOK_SYMBOL"
     /\ TOK_next_next_type(st.tokens) = "TOK_EQUAL"
  THEN LET symbol == TOK_next(st.tokens)
           value == Rule("additive", v, NULL, Consume(Consume(st)))
       IN IF value.ret = NULL
          THEN Ret(NULL, SetErr(value.st,
                     "Error parsing right-hand side of assignment", <<>>))
          ELSE LET sym == Alloc(value.st, ET_symbol(value.st.heap, symbol.symbol))
               IN Alloc(sym.st, ET_node(sym.st.heap, "OP_ASSIGN", sym.ret, value.ret))
  ELSE Rule("additive", v, NULL, st)

\* parse1.c: the right-hand side is an assignment; its result is not tested.
assignment_parse1(v, st) ==
  IF TOK_next_type(st.tokens) = "TOK_SYMBOL"
     /\ TOK_next_Assignement(st.tokens).type = "TOK_EQUAL"
  THEN LET symbol == TOK_next(st.tokens)
           value == Rule("assignment", v, NULL, Consume(Consume(st)))
           sym == Alloc(value.st, ET_symbol(value.st.heap, symbol.symbol))
       IN Alloc(sym.st, ET_node(sym.st.heap, "OP_ASSIGN", sym.ret, value.ret))
  ELSE Rule("additive", v, NULL, st)

\* additive's loop taking an exponential as its right operand
additive_loop_exponential(v, ret, st) ==
  IF TOK_next_type(st.tokens) \in {"TOK_PLUS", "TOK_MINUS"}
  THEN LET op == TOK_next_type(st.tokens)
           right == Rule("exponential", v, NULL, Consume(st))
       IN IF right.ret = NULL
          THEN Ret(NULL, Free(right.st, ret))
          ELSE LET n == Alloc(right.st,
                          ET_node(right.st.heap,
                                  IF op = "TOK_PLUS" THEN "OP_ADD" ELSE "OP_SUB",
                                  ret, right.ret))
               IN Rule("additive_loop", v, n.ret, n.st)
  ELSE Ret(ret, st)

\* additive's loop recursing into additive for its right operand
additive_loop_recursive(v, ret, st) ==
  IF TOK_next_type(st.tokens) \in {"TOK_PLUS", "TOK_MINUS"}
  THEN LET op == TOK_next_type(st.tokens)
           right == Rule("additive", v, NULL, Consume(st))
       IN IF right.ret = NULL
          THEN Ret(NULL, Free(right.st, ret))
          ELSE LET n == Alloc(right.st,
                          ET_node(right.st.heap,
                                  IF op = "TOK_PLUS" THEN "OP_ADD" ELSE "OP_SUB",
                                  ret, right.ret))
               IN Rule("additive_loop", v, n.ret, n.st)
  ELSE Ret(ret, st)

additive_loop(v, ret, st) ==
  IF TOK_next_type(st.tokens) \in {"TOK_PLUS", "TOK_MINUS"}
  THEN LET op == TOK_next_type(st.tokens)
           right == Rule("multiplicative", v, NULL, Consume(st))
       IN IF right.ret = NULL
          THEN Ret(NULL, Free(right.st, ret))
          ELSE LET n == Alloc(right.st,
                          ET_node(right.st.heap,
                                  IF op = "TOK_PLUS" THEN "OP_ADD" ELSE "OP_SUB",
                                  ret, right.ret))
               IN Rule("additive_loop", v, n.ret, n.st)
  ELSE Ret(ret, st)

additive(v, st) ==
  LET first == Rule("multiplicative", v, NULL, st)
  IN IF first.ret = NULL THEN Ret(NULL, first.st)
     ELSE Rule("additive_loop", v, first.ret, first.st)

multiplicative_loop(v, ret, st) ==
  IF TOK_next_type(st.tokens) \in {"TOK_MULTIPLY", "TOK_DIVIDE"}
  THEN LET op == TOK_next_type(st.tokens)
           right == Rule("exponential", v, NULL, Consume(st))
       IN IF right.ret = NULL
          THEN Ret(NULL, Free(right.st, ret))
          ELSE LET n == Alloc(right.st,
                          ET_node(right.st.heap,
                                  IF op = "TOK_MULTIPLY" THEN "OP_MUL" ELSE "OP_DIV",
                                  ret, right.ret))
               IN Rule("multiplicative_loop", v, n.ret, n.st)
  ELSE Ret(ret, st)

multiplicative(v, st) ==
  LET first == Rule("exponential", v, NULL, st)
  IN IF first.ret = NULL THEN Ret(NULL, first.st)
     ELSE Rule("multiplicative_loop", v, first.ret, first.st)

\* exponential's loop taking a primary as its right operand
exponential_loop_primary(v, ret, st) ==
  IF TOK_next_type(st.tokens) = "TOK_POWER"
  THEN LET right == Rule("primary", v, NULL, Consume(st))
       IN IF right.ret = NULL
          THEN Ret(NULL, Free(right.st, ret))
          ELSE LET n == Alloc(right.st,
                          ET_node(right.st.heap, "OP_POWER", ret, right.ret))
               IN Rule("exponential_loop", v, n.ret, n.st)
  ELSE Ret(ret, st)

exponential_loop(v, ret, st) ==
  IF TOK_next_type(st.tokens) = "TOK_POWER"
  THEN LET right == Rule("exponential", v, NULL, Consume(st))
       IN IF right.ret = NULL
          THEN Ret(NULL, Free(right.st, ret))
          ELSE LET n == Alloc(right.st,
                          ET_node(right.st.heap, "OP_POWER", ret, right.ret))
               IN Rule("exponential_loop", v, n.ret, n.st)
  ELSE Ret(ret, st)

exponential(v, st) ==
  LET first == Rule("primary", v, NULL, st)
  IN IF first.ret = NULL THEN Ret(NULL, first.st)
     ELSE Rule("exponential_loop", v, first.ret, first.st)

\* primary negating a whole exponential
primary_negates_exponential(v, st) ==
  LET tt == TOK_next_type(st.tokens)
  IN IF tt = "TOK_VALUE"
     THEN LET n == Alloc(st, ET_value(st.heap, TOK_next(st.tokens).value))
          IN Ret(n.ret, Consume(n.st))
     ELSE IF tt = "TOK_SYMBOL"
     THEN LET symbol == TOK_next(st.tokens)
              st1 == Consume(st)
          IN Alloc(st1, ET_symbol(st1.heap, symbol.symbol))
     ELSE IF tt = "TOK_OPEN_PAREN"
     THEN LET inner == Rule("assignment", v, NULL, Consume(st))
          IN IF TOK_next_type(inner.st.tokens) = "TOK_CLOSE_PAREN"
             THEN Ret(inner.ret, Consume(inner.st))
             ELSE LET st2 == IF v = "parse.c"
                             THEN SetErr(inner.st, "Unexpected token %s",
                                         <<TT_to_str(TOK_next_type(inner.st.tokens))>>)
                             ELSE SetErr(inner.st, "Expected closing parenthesis.", <<>>)
                  IN Ret(NULL, Free(st2, inner.ret))
     ELSE IF tt = "TOK_MINUS"
     THEN LET operand == Rule("exponential", v, NULL, Consume(st))
          IN IF operand.ret = NULL
             THEN Ret(NULL, operand.st)
             ELSE Alloc(operand.st,
                        ET_node(operand.st.heap, "UNARY_NEGATE", operand.ret, NULL))
     ELSE Ret(NULL, SetErr(st, "Unexpected token %s",
                           <<TT_to_str(TOK_next(st.tokens).type)>>))

primary(v, st) ==
  LET tt == TOK_next_type(st.tokens)
  IN IF tt = "TOK_VALUE"
     THEN LET n == Alloc(st, ET_value(st.heap, TOK_next(st.tokens).value))
          IN Ret(n.ret, Consume(n.st))
     ELSE IF tt = "TOK_SYMBOL"
     THEN LET symbol == TOK_next(st.tokens)
              st1 == Consume(st)
          IN Alloc(st1, ET_symbol(st1.heap, symbol.symbol))
     ELSE IF tt = "TOK_OPEN_PAREN"
     THEN LET inner == Rule("assignment", v, NULL, Consume(st))
          IN IF TOK_next_type(inner.st.tokens) = "TOK_CLOSE_PAREN"
             THEN Ret(inner.ret, Consume(inner.st))
             ELSE LET st2 == IF v = "parse.c"
                             THEN SetErr(inner.st, "Unexpected token %s",
                                         <<TT_to_str(TOK_next_type(inner.st.tokens))>>)
                             ELSE SetErr(inner.st, "Expected closing parenthesis.", <<>>)
                  IN Ret(NULL, Free(st2, inner.ret))
     ELSE IF tt = "TOK_MINUS"
     THEN LET operand == Rule("primary", v, NULL, Consume(st))
          IN IF operand.ret = NULL
             THEN Ret(NULL, operand.st)
             ELSE Alloc(operand.st,
                        ET_node(operand.st.heap, "UNARY_NEGATE", operand.ret, NULL))
     ELSE Ret(NULL, SetErr(st, "Unexpected token %s",
                           <<TT_to_str(TOK_next(st.tokens).type)>>))

Rule(name, v, ret, st) ==
  CASE name = "assignment" ->
         IF v = "parse.c" THEN assignment_parse(v, st) ELSE assignment_parse1(v, st)
    [] name = "additive" -> additive(v, st)
    [] name = "additive_loop" -> additive_loop(v, ret, st)
    [] name = "multiplicative" -> multiplicative(v, st)
    [] name = "multiplicative_loop" -> multiplicative_loop(v, ret, st)
    [] name = "exponential" -> exponential(v, st)
    [] name = "exponential_loop" -> exponential_loop(v, ret, st)
    [] name = "primary" -> primary(v, st)

\* Parse without the end-of-input test
Parse_ignores_rest(v, st) == Rule("assignment", v, NULL, st)

\* Parse: the top-level rule, then the end-of-input test.
Parse(v, st) ==
  LET top == Rule("assignment", v, NULL, st)
  IN IF top.ret = NULL
     THEN Ret(NULL, top.st)
     ELSE IF TOK_next_type(top.st.tokens) # "TOK_END"
     THEN Ret(NULL, Free(SetErr(top.st, "Syntax error on token %s",
                                <<TT_to_str(TOK_next_type(top.st.tokens))>>),
                         top.ret))
     ELSE Ret(top.ret, top.st)

(***************************************************************************)
(* The tokenizer (tokenize.c).  A line is a sequence of characters; At     *)
(* reads it as the C string it is, 0-based, with the terminator after the  *)
(* last character.                                                         *)
(***************************************************************************)
SYMBOL_LIMIT == 31

At(str, i) == IF i < Len(str) THEN str[i + 1] ELSE NUL

isspace(c) == c = " "
isdigit(c) == c \in {DigitChars[d] : d \in 1..10}
isalpha(c) == c \in {Alphabet[a] : a \in 1..Len(Alphabet)}
isalnum(c) == isalpha(c) \/ isdigit(c)

\* the first offset from i on that holds no digit
RECURSIVE DigitsEnd(_, _)
DigitsEnd(str, i) == IF isdigit(At(str, i)) THEN DigitsEnd(str, i + 1) ELSE i

\* the number the digits at offsets i .. j - 1 spell
RECURSIVE DigitsValue(_, _, _)
DigitsValue(str, i, j) ==
  IF j <= i THEN 0
  ELSE 10 * DigitsValue(str, i, j - 1)
       + (CHOOSE d \in 0..9 : DigitChars[d + 1] = At(str, j - 1))

\* strtod(&input[i], &endptr) for decimal text: digits, an optional point
\* and digits, an optional exponent.  end = i when nothing converts.  A
\* value with a fraction or an exponent is not tracked.
strtod(str, i) ==
  LET e1 == DigitsEnd(str, i)
      point == At(str, e1) = "."
      e2 == IF point THEN DigitsEnd(str, e1 + 1) ELSE e1
      digits == (e1 - i) + (IF point THEN e2 - e1 - 1 ELSE 0)
      signed == At(str, e2 + 1) \in {"+", "-"}
      x1 == IF signed THEN e2 + 2 ELSE e2 + 1
      exponent == At(str, e2) = "e" /\ isdigit(At(str, x1))
  IN IF digits = 0 THEN [end |-> i, value |-> Num(0)]
     ELSE IF exponent THEN [end |-> DigitsEnd(str, x1), value |-> OOR]
     ELSE [end |-> e2,
           value |-> IF point /\ DigitsValue(str, e1 + 1, e2) # 0 THEN OOR
                     ELSE Norm(DigitsValue(str, i, e1))]

\* the while loop of the symbol branch: i and length after it
RECURSIVE SymbolLoop(_, _, _)
SymbolLoop(str, i, length) ==
  IF (isalnum(At(str, i)) \/ At(str, i) = "_") /\ length < SYMBOL_LIMIT
  THEN SymbolLoop(str, i + 1, length + 1)
  ELSE [i |-> i, length |-> length]

OperatorType(c) ==
  CASE c = "+" -> "TOK_PLUS"
    [] c = "-" -> "TOK_MINUS"
    [] c = "*" -> "TOK_MULTIPLY"
    [] c = "/" -> "TOK_DIVIDE"
    [] c = "^" -> "TOK_POWER"
    [] c = "(" -> "TOK_OPEN_PAREN"
    [] c = ")" -> "TOK_CLOSE_PAREN"
    [] OTHER -> "none"

Lexed(toks, msg) == [ok |-> TRUE, tokens |-> toks, errmsg |-> msg]
LexError(fmt, arg) == [ok |-> FALSE, tokens |-> <<>>, errmsg |-> Msg(fmt, arg)]

\* the scanning loop from offset i on, toks the tokens appended so far
RECURSIVE TokenizeLoop(_, _, _, _)
TokenizeLoop(str, i, toks, msg) ==
  LET c == At(str, i)
  IN IF c = NUL THEN Lexed(Append(toks, Token("TOK_END", Num(0), <<>>)), msg)
     ELSE IF isspace(c) THEN TokenizeLoop(str, i + 1, toks, msg)
     ELSE IF isdigit(c) \/ c = "."
     THEN LET r == strtod(str, i)
          IN IF r.end = i
             THEN LexError("Position %zu: Illegal numeric value", <<i + 1>>)
             ELSE TokenizeLoop(str, r.end, Append(toks, Token("TOK_VALUE", r.value, <<>>)), msg)
     ELSE IF (isalpha(c) \/ c = "_") /\ i < SYMBOL_LIMIT
     THEN LET r == SymbolLoop(str, i, 0)
          IN IF r.length > SYMBOL_LIMIT
             THEN LexError("Position %zu: Symbol length exceeds maximum of 31 characters",
                           <<i + 1>>)
             ELSE TokenizeLoop(str, r.i,
                               Append(toks, Token("TOK_SYMBOL", Num(0),
                                                  SubSeq(str, i + 1, i + r.length))),
                               msg)
     ELSE IF c = "="
     THEN TokenizeLoop(str, i + 1, Append(toks, Token("TOK_EQUAL", Num(0), <<>>)), msg)
     ELSE IF OperatorType(c) = "none"
     THEN LexError("Position %zu: unexpected character %c", <<i + 1, c>>)
     ELSE TokenizeLoop(str, i + 1, Append(toks, Token(OperatorType(c), Num(0), <<>>)), msg)

\* TOK_tokenize_input that appends the end-of-input token twice
TOK_tokenize_input_two_ends(str, msg) ==
  LET r == TokenizeLoop(str, 0, <<>>, msg)
  IN IF r.ok THEN Lexed(Append(r.tokens, Token("TOK_END", Num(0), <<>>)), r.errmsg)
     ELSE r

TOK_tokenize_input(str, msg) == TokenizeLoop(str, 0, <<>>, msg)

(***************************************************************************)
(* Token lists handed to Parse.  A list is given by its token types; the   *)
(* token at position i carries the value i or the i-th name, so that       *)
(* operands are told apart in the tree.  Every list ends in TOK_END.       *)
(***************************************************************************)
Letters == <<"a", "b", "c", "d", "e", "f", "g", "h", "i", "j", "k", "l">>

NameAt(i) == <<Letters[((i - 1) % Len(Letters)) + 1]>>

TokenAt(type, i) ==
  Token(type,
        IF type = "TOK_VALUE" THEN Num(i) ELSE Num(0),
        IF type = "TOK_SYMBOL" THEN NameAt(i) ELSE <<>>)

TokenList(types) ==
  [i \in 1..(Len(types) + 1) |->
     IF i <= Len(types) THEN TokenAt(types[i], i) ELSE TokenAt("TOK_END", i)]

BinaryTokens == {"TOK_EQUAL", "TOK_PLUS", "TOK_MINUS", "TOK_MULTIPLY",
                 "TOK_DIVIDE", "TOK_POWER"}

OperandTokens == {"TOK_VALUE", "TOK_SYMBOL"}

\* every list of at most MaxLen tokens
ShortLists == UNION {[1..n -> TokenType \ {"TOK_END"}] : n \in 0..MaxLen}

Interleave(operands, ops) ==
  [i \in 1..(Len(operands) + Len(ops)) |->
     IF i % 2 = 1 THEN operands[(i + 1) \div 2] ELSE ops[i \div 2]]

\* operand (op operand)^n
Chain(n) ==
  {Interleave(operands, ops) : operands \in [1..(n + 1) -> OperandTokens],
                               ops \in [1..n -> BinaryTokens]}

\* the chains of at most MaxOps operators
ChainLists == UNION {Chain(n) : n \in 0..MaxOps}

\* k '-' tokens, k <= MaxNeg, before an operand or operand op operand
NegatedLists ==
  {[i \in 1..k |-> "TOK_MINUS"] \o c : k \in 1..MaxNeg, c \in Chain(0) \cup Chain(1)}

\* operand or operand op operand with a parenthesis opened, closed, or both
WrappedLists ==
  UNION {{<<"TOK_OPEN_PAREN">> \o c, c \o <<"TOK_CLOSE_PAREN">>,
          <<"TOK_OPEN_PAREN">> \o c \o <<"TOK_CLOSE_PAREN">>} :
         c \in Chain(0) \cup Chain(1)}

\* The lines the specification quotes: 2^3^2, 10-3-2, 2+3*4, 1+2*3, x=5.
Lit(n) == Token("TOK_VALUE", Num(n), <<>>)
Sym(name) == Token("TOK_SYMBOL", Num(0), name)
Op(type) == Token(type, Num(0), <<>>)

QuotedLines ==
  {<<Lit(2), Op("TOK_POWER"), Lit(3), Op("TOK_POWER"), Lit(2), Op("TOK_END")>>,
   <<Lit(10), Op("TOK_MINUS"), Lit(3), Op("TOK_MINUS"), Lit(2), Op("TOK_END")>>,
   <<Lit(2), Op("TOK_PLUS"), Lit(3), Op("TOK_MULTIPLY"), Lit(4), Op("TOK_END")>>,
   <<Lit(1), Op("TOK_PLUS"), Lit(2), Op("TOK_MULTIPLY"), Lit(3), Op("TOK_END")>>,
   <<Sym(<<"x">>), Op("TOK_EQUAL"), Lit(5), Op("TOK_END")>>}

ParseInputs ==
  {TokenList(ts) : ts \in ShortLists \cup ChainLists \cup NegatedLists \cup WrappedLists}
  \cup QuotedLines

(***************************************************************************)
(* Trees built directly with ET_value, ET_symbol and ET_node.  A shape is  *)
(* a tree without addresses; Construct allocates it bottom-up.             *)
(***************************************************************************)
ValueShape(d) == [type |-> "VALUE", value |-> d]
SymbolShape(name) == [type |-> "SYMBOL", symbol |-> name]
NodeShape(op, l, r) == [type |-> op, left |-> l, right |-> r]

RECURSIVE Construct(_, _)
Construct(h, sh) ==
  IF sh = NULL THEN [node |-> NULL, heap |-> h]
  ELSE IF sh.type = "VALUE" THEN ET_value(h, sh.value)
  ELSE IF sh.type = "SYMBOL" THEN ET_symbol(h, sh.symbol)
  ELSE LET l == Construct(h, sh.left)
           r == Construct(l.heap, sh.right)
       IN ET_node(r.heap, sh.type, l.node, r.node)

RECURSIVE Shape(_)
Shape(t) ==
  IF t = NULL THEN NULL
  ELSE IF t.type = "VALUE" THEN ValueShape(t.value)
  ELSE IF t.type = "SYMBOL" THEN SymbolShape(t.symbol)
  ELSE NodeShape(t.type, Shape(t.left), Shape(t.right))

EvalNames == {<<"x">>, <<"y">>}
EvalValues == {Num(-1), Num(0), Num(2)}

LeafShapes == {ValueShape(d) : d \in EvalValues} \cup {SymbolShape(n) : n \in EvalNames}

ArithShapes ==
  {NodeShape(op, l, r) : op \in {"OP_ADD", "OP_SUB", "OP_MUL", "OP_DIV", "OP_POWER"},
                         l \in LeafShapes, r \in LeafShapes}
  \cup {NodeShape("UNARY_NEGATE", l, NULL) : l \in LeafShapes}

\* assignment targets: symbols, and what only ET_node can put there
TargetShapes ==
  {SymbolShape(n) : n \in EvalNames}
  \cup {ValueShape(Num(2)), NodeShape("OP_ADD", SymbolShape(<<"x">>), ValueShape(Num(2)))}

AssignShapes ==
  {NodeShape("OP_ASSIGN", l, r) :
     l \in TargetShapes,
     r \in LeafShapes \cup {NodeShape("OP_DIV", ValueShape(Num(2)), ValueShape(Num(0))),
                            NodeShape("OP_ADD", SymbolShape(<<"x">>), ValueShape(Num(2)))}}

\* quotients whose divisor is computed: 2 - 2 and x - 2
DivShapes ==
  {NodeShape("OP_DIV", l, NodeShape("OP_SUB", r, ValueShape(Num(2)))) :
     l \in LeafShapes, r \in {ValueShape(Num(2)), SymbolShape(<<"x">>)}}

EvalShapes == LeafShapes \cup ArithShapes \cup AssignShapes \cup DivShapes

\* What the symbol field of a node that is no symbol leaf reads as: the
\* process crashes on it, or it is taken for some string.
Oracles == [crash : BOOLEAN, key : EvalNames \cup {<<"q">>}]

\* some assignment node of t has no symbol leaf on its left
RECURSIVE ReadsForeignSymbol(_)
ReadsForeignSymbol(t) ==
  /\ t # NULL
  /\ ~IsLeaf(t)
  /\ \/ t.type = "OP_ASSIGN" /\ (t.left = NULL \/ t.left.type # "SYMBOL")
     \/ ReadsForeignSymbol(t.left)
     \/ ReadsForeignSymbol(t.right)

\* the readings that make a difference to the evaluation of t
OraclesFor(t) ==
  IF ReadsForeignSymbol(t) THEN Oracles ELSE {[crash |-> TRUE, key |-> <<"q">>]}

(***************************************************************************)
(* The driver (main): a line's tokens are parsed, the tree is evaluated    *)
(* against the dictionary, then released.                                  *)
(***************************************************************************)
InitParse ==
  /\ pc = "tokenized"
  /\ variant \in {"parse.c", "parse1.c"}
  /\ line = <<>>
  /\ input \in ParseInputs
  /\ tokens = input
  /\ errmsg = NoMsg
  /\ heap = EmptyHeap
  /\ tree = NULL
  /\ expr_buf = <<>>
  /\ buf_sz = EXPR_BUF_SIZE
  /\ str_len = 0
  /\ dict = CD_new
  /\ result = Num(0)
  /\ lines = 0
  /\ stored = NoKeys

\* tree = Parse(tokens, errmsg, sizeof(errmsg)), on a list that is not empty
DoParse ==
  /\ \/ pc = "tokenized"
     \/ pc = "lexed" /\ CL_length(tokens) # 0
  /\ LET r == Parse(variant, [tokens |-> tokens, errmsg |-> errmsg, heap |-> heap])
     IN /\ tree' = r.ret
        /\ tokens' = r.st.tokens
        /\ errmsg' = r.st.errmsg
        /\ heap' = r.st.heap
  /\ pc' = "parsed"
  /\ UNCHANGED <<stored, variant, line, input, expr_buf, buf_sz, str_len, dict, result, lines>>

\* ET_tree2string(tree, expr_buf, sizeof(expr_buf))
DoStringify ==
  /\ pc = "parsed"
  /\ tree # NULL
  /\ LET r == ET_tree2string(tree, expr_buf, 0, buf_sz)
     IN expr_buf' = r.mem /\ str_len' = r.len
  /\ pc' = "stringified"
  /\ UNCHANGED <<stored, variant, line, input, tokens, errmsg, heap, tree, buf_sz, dict, result, lines>>

\* ET_evaluate(tree, dict, errmsg, sizeof(errmsg))
DoEvaluate ==
  /\ pc \in {"stringified", "built"}
  /\ \E o \in OraclesFor(tree) :
       LET r == ET_evaluate(tree, [dict |-> dict, errmsg |-> errmsg,
                                   aborted |-> FALSE, exact |-> TRUE, oracle |-> o])
       IN /\ r.es.exact
          /\ dict' = r.es.dict
          /\ errmsg' = r.es.errmsg
          /\ result' = IF r.es.aborted THEN result ELSE r.val
          /\ pc' = IF r.es.aborted THEN "aborted" ELSE "evaluated"
  /\ UNCHANGED <<stored, variant, line, input, tokens, heap, tree, expr_buf, buf_sz, str_len, lines>>

\* loop_end: ET_free(tree)
DoRelease ==
  /\ \/ pc = "evaluated"
     \/ pc = "parsed" /\ tree = NULL
  /\ heap' = ET_free(heap, tree)
  /\ tree' = NULL
  /\ pc' = "released"
  /\ UNCHANGED <<stored, variant, line, input, tokens, errmsg, expr_buf, buf_sz, str_len, dict, result, lines>>

NextParse == DoParse \/ DoStringify \/ DoEvaluate \/ DoRelease

SpecParse == InitParse /\ [][NextParse]_vars

(***************************************************************************)
(* Evaluation of directly built trees, line after line, against one        *)
(* dictionary.                                                             *)
(***************************************************************************)
InitEval ==
  /\ pc = "released"
  /\ variant = "none"
  /\ line = <<>>
  /\ input = <<>>
  /\ tokens = <<>>
  /\ errmsg = NoMsg
  /\ heap = EmptyHeap
  /\ tree = NULL
  /\ expr_buf = <<>>
  /\ buf_sz = EXPR_BUF_SIZE
  /\ str_len = 0
  /\ dict = CD_new
  /\ result = Num(0)
  /\ lines = 0
  /\ stored = NoKeys

\* the next line: errmsg[0] = '\0', and a tree is built
BuildTree ==
  /\ pc = "released"
  /\ lines < MaxLines
  /\ \E sh \in EvalShapes :
       LET c == Construct(heap, sh)
       IN /\ tree' = c.node
          /\ heap' = c.heap
  /\ errmsg' = NoMsg
  /\ lines' = lines + 1
  /\ pc' = "built"
  /\ UNCHANGED <<stored, variant, line, input, tokens, expr_buf, buf_sz, str_len, dict, result>>

NextEval == BuildTree \/ DoEvaluate \/ DoRelease

SpecEval == InitEval /\ [][NextEval]_vars
(***************************************************************************)
(* Rendering of directly built trees into buffers of every small capacity. *)
(***************************************************************************)
StrLeaves == {ValueShape(Num(7)), ValueShape(Num(-12)),
              SymbolShape(<<"x">>), SymbolShape(<<"a", "b">>)}

StrOps == {"OP_ADD", "OP_SUB", "OP_MUL", "OP_DIV", "OP_POWER", "OP_ASSIGN"}

\* a leaf, a negation or a binary node over leaves
FlatShapes ==
  StrLeaves
  \cup {NodeShape("UNARY_NEGATE", l, NULL) : l \in StrLeaves}
  \cup {NodeShape(op, l, r) : op \in StrOps, l \in StrLeaves, r \in StrLeaves}

StrInner == {ValueShape(Num(7)),
             NodeShape("UNARY_NEGATE", SymbolShape(<<"x">>), NULL),
             NodeShape("OP_ADD", SymbolShape(<<"x">>), ValueShape(Num(7))),
             NodeShape("OP_ASSIGN", SymbolShape(<<"a", "b">>), ValueShape(Num(-12)))}

\* nodes over nodes, and the assignment without a right-hand side that
\* parse1.c returns for "x ="
NestedShapes ==
  {NodeShape("UNARY_NEGATE", l, NULL) : l \in StrInner}
  \cup {NodeShape(op, l, r) : op \in {"OP_MUL", "OP_POWER"}, l \in StrInner, r \in StrInner}
  \cup {NodeShape("OP_ASSIGN", SymbolShape(<<"x">>), NULL)}

StrShapes == FlatShapes \cup NestedShapes

InitStr ==
  /\ pc = "built"
  /\ variant = "none"
  /\ line = <<>>
  /\ input = <<>>
  /\ tokens = <<>>
  /\ errmsg = NoMsg
  /\ \E sh \in StrShapes :
       LET c == Construct(EmptyHeap, sh)
       IN tree = c.node /\ heap = c.heap
  /\ expr_buf = <<>>
  /\ buf_sz \in 0..MaxBuf
  /\ str_len = 0
  /\ dict = CD_new
  /\ result = Num(0)
  /\ lines = 0
  /\ stored = NoKeys

\* len = ET_tree2string(tree, buf, buf_sz)
Render ==
  /\ pc = "built"
  /\ LET r == ET_tree2string(tree, expr_buf, 0, buf_sz)
     IN expr_buf' = r.mem /\ str_len' = r.len
  /\ pc' = "rendered"
  /\ UNCHANGED <<stored, variant, line, input, tokens, errmsg, heap, tree, buf_sz, dict, result, lines>>

\* ET_free(tree)
Discard ==
  /\ pc = "rendered"
  /\ heap' = ET_free(heap, tree)
  /\ tree' = NULL
  /\ pc' = "released"
  /\ UNCHANGED <<stored, variant, line, input, tokens, errmsg, expr_buf, buf_sz, str_len, dict, result, lines>>

NextStr == Render \/ Discard

SpecStr == InitStr /\ [][NextStr]_vars

(***************************************************************************)
(* Lines handed to the tokenizer: every short line over its characters,    *)
(* and lines with one long name at a chosen offset.                        *)
(***************************************************************************)
LineChars == {" ", "1", ".", "a", "_", "=", "+", "-", "*", "/", "^", "(", ")", "$"}

ShortLines == UNION {[1..n -> LineChars] : n \in 0..MaxChars}

\* n identifier characters: first, then a's, then last
Name(n, first, last) ==
  [j \in 1..n |-> IF j = 1 THEN first ELSE IF j = n THEN last ELSE "a"]

\* k copies of c, a name, and what follows it
NameLines ==
  {[j \in 1..k |-> c] \o Name(n, first, last) \o rest :
     k \in 0..MaxPad, c \in {" ", "("}, n \in 1..MaxName,
     first \in {"a", "_"}, last \in {"b", "_", "1"},
     rest \in {<<>>, <<"+", "x">>}}

TokLines == ShortLines \cup NameLines

InitTok ==
  /\ pc = "read"
  /\ variant = "none"
  /\ line \in TokLines
  /\ input = <<>>
  /\ tokens = <<>>
  /\ errmsg = NoMsg
  /\ heap = EmptyHeap
  /\ tree = NULL
  /\ expr_buf = <<>>
  /\ buf_sz = EXPR_BUF_SIZE
  /\ str_len = 0
  /\ dict = CD_new
  /\ result = Num(0)
  /\ lines = 0
  /\ stored = NoKeys

\* tokens = TOK_tokenize_input(input, errmsg, sizeof(errmsg))
DoTokenize ==
  /\ pc = "read"
  /\ LET r == TOK_tokenize_input(line, errmsg)
     IN /\ tokens' = r.tokens
        /\ input' = r.tokens
        /\ errmsg' = r.errmsg
        /\ pc' = IF r.ok THEN "lexed" ELSE "lexerror"
  /\ UNCHANGED <<stored, variant, line, heap, tree, expr_buf, buf_sz, str_len, dict, result, lines>>

\* loop_end: CL_free(tokens)
EndLine ==
  /\ pc \in {"lexed", "lexerror"}
  /\ tokens' = <<>>
  /\ pc' = "released"
  /\ UNCHANGED <<stored, variant, line, input, errmsg, heap, tree, expr_buf, buf_sz, str_len,
                 dict, result, lines>>

NextTok == DoTokenize \/ EndLine

SpecTok == InitTok /\ [][NextTok]_vars

(***************************************************************************)
(* The dictionary on its own (cdict.h): a dictionary made by CD_new takes  *)
(* CD_store and CD_delete calls in any order; stored records, per key, the *)
(* value of the last CD_store not followed by a CD_delete.                 *)
(***************************************************************************)
DictValues == {Num(0), Num(1), NAN}

InitDict ==
  /\ pc = "dict"
  /\ variant = "none"
  /\ line = <<>>
  /\ input = <<>>
  /\ tokens = <<>>
  /\ errmsg = NoMsg
  /\ heap = EmptyHeap
  /\ tree = NULL
  /\ expr_buf = <<>>
  /\ buf_sz = EXPR_BUF_SIZE
  /\ str_len = 0
  /\ dict = CD_new
  /\ result = Num(0)
  /\ lines = 0
  /\ stored = NoKeys

\* CD_store(dict, key, value)
DoStore ==
  /\ pc = "dict"
  /\ dict.capacity <= MaxCapacity
  /\ \E key \in DictKeys, value \in DictValues :
       LET r == CD_store(dict, key, value)
       IN IF r.aborted
          THEN pc' = "aborted" /\ UNCHANGED <<dict, stored>>
          ELSE /\ dict' = r.dict
               /\ stored' = [stored EXCEPT ![key] = value]
               /\ pc' = pc
  /\ UNCHANGED <<variant, line, input, tokens, errmsg, heap, tree, expr_buf, buf_sz,
                 str_len, result, lines>>

\* CD_delete(dict, key)
DoDelete ==
  /\ pc = "dict"
  /\ dict.num_deleted < MaxDeleted
  /\ \E key \in DictKeys :
       /\ dict' = CD_delete(dict, key)
       /\ stored' = [stored EXCEPT ![key] = Absent]
  /\ UNCHANGED <<pc, variant, line, input, tokens, errmsg, heap, tree, expr_buf, buf_sz,
                 str_len, result, lines>>

NextDict == DoStore \/ DoDelete

SpecDict == InitDict /\ [][NextDict]_vars

(***************************************************************************)
(* The driver from the line on (main): a line is tokenized; its tokens are *)
(* parsed, the tree is rendered, evaluated and released.  A line that is   *)
(* not tokenized is skipped.                                               *)
(***************************************************************************)
TextChars == {" ", "1", "a", "=", "+", "(", ")"}

QuotedTexts ==
  {<<"1", "+", "2", "*", "3">>, <<"2", "^", "3", "^", "2">>,
   <<"1", "0", "-", "3", "-", "2">>, <<"x", "=", "5">>, <<"-", "1">>,
   <<"x", " ", "=", " ", "y", " ", "=", " ", "5">>, <<"1", "/", "$">>}

TextLines == UNION {[1..n -> TextChars] : n \in 0..MaxText} \cup QuotedTexts

InitMain ==
  /\ pc = "read"
  /\ variant \in {"parse.c", "parse1.c"}
  /\ line \in TextLines
  /\ input = <<>>
  /\ tokens = <<>>
  /\ errmsg = NoMsg
  /\ heap = EmptyHeap
  /\ tree = NULL
  /\ expr_buf = <<>>
  /\ buf_sz = EXPR_BUF_SIZE
  /\ str_len = 0
  /\ dict = CD_new
  /\ result = Num(0)
  /\ lines = 0
  /\ stored = NoKeys

\* tokens == NULL: goto loop_end
SkipLine ==
  /\ pc = "lexerror"
  /\ heap' = ET_free(heap, tree)
  /\ tokens' = <<>>
  /\ pc' = "released"
  /\ UNCHANGED <<variant, line, input, errmsg, tree, expr_buf, buf_sz, str_len, dict,
                 result, lines, stored>>

NextMain == DoTokenize \/ SkipLine \/ DoParse \/ DoStringify \/ DoEvaluate \/ DoRelease

SpecMain == InitMain /\ [][NextMain]_vars

(***************************************************************************)
(* Properties of the parser.                                               *)
(***************************************************************************)
\* Parse has returned and its tree has not been released yet.
Parsed == pc \in {"parsed", "stringified", "evaluated", "aborted"}

\* the leaf a VALUE or SYMBOL token becomes
LeafOf(tok) ==
  IF tok.type = "TOK_VALUE" THEN ValueShape(tok.value) ELSE SymbolShape(tok.symbol)

\* the node kind of an operator token
NodeOf(type) ==
  CASE type = "TOK_PLUS" -> "OP_ADD"
    [] type = "TOK_MINUS" -> "OP_SUB"
    [] type = "TOK_MULTIPLY" -> "OP_MUL"
    [] type = "TOK_DIVIDE" -> "OP_DIV"
    [] type = "TOK_POWER" -> "OP_POWER"
    [] type = "TOK_EQUAL" -> "OP_ASSIGN"

\* binding power of an arithmetic operator token
Level(type) ==
  CASE type \in {"TOK_PLUS", "TOK_MINUS"} -> 1
    [] type \in {"TOK_MULTIPLY", "TOK_DIVIDE"} -> 2
    [] type = "TOK_POWER" -> 3

ArithTokens == BinaryTokens \ {"TOK_EQUAL"}

\* toks is operand (op operand)^n TOK_END with n >= 1 and every op in ops
IsChain(toks, ops) ==
  /\ Len(toks) >= 4
  /\ Len(toks) % 2 = 0
  /\ toks[Len(toks)].type = "TOK_END"
  /\ \A i \in 1..(Len(toks) - 1) :
        IF i % 2 = 1 THEN toks[i].type \in OperandTokens ELSE toks[i].type \in ops

\* operands i..last of a chain grouped from the right: p_i op (p_i+1 op (...))
RECURSIVE FoldRight(_, _)
FoldRight(toks, i) ==
  IF i = Len(toks) - 1 THEN LeafOf(toks[i])
  ELSE NodeShape(NodeOf(toks[i + 1].type), LeafOf(toks[i]), FoldRight(toks, i + 2))

\* operands 1..i of a chain grouped from the left: ((p_1 op p_2) op ...) op p_i
RECURSIVE FoldLeft(_, _)
FoldLeft(toks, i) ==
  IF i = 1 THEN LeafOf(toks[i])
  ELSE NodeShape(NodeOf(toks[i - 1].type), FoldLeft(toks, i - 2), LeafOf(toks[i]))

Line_2pow3pow2 ==
  <<Lit(2), Op("TOK_POWER"), Lit(3), Op("TOK_POWER"), Lit(2), Op("TOK_END")>>
Line_10minus3minus2 ==
  <<Lit(10), Op("TOK_MINUS"), Lit(3), Op("TOK_MINUS"), Lit(2), Op("TOK_END")>>
Line_2plus3times4 ==
  <<Lit(2), Op("TOK_PLUS"), Lit(3), Op("TOK_MULTIPLY"), Lit(4), Op("TOK_END")>>

\* C2: in a op1 b op2 c with operators of different binding power, the
\* operator of higher power ('^' over '*' '/' over '+' '-') groups its two
\* operands first, whichever comes first: a+b*c is (a+(b*c)), a*b+c is
\* ((a*b)+c); the parse of 2+3*4 is rendered as "(2+(3*4))".
C2_Precedence ==
  /\ (Parsed /\ Len(input) = 6 /\ IsChain(input, ArithTokens)
        /\ Level(input[2].type) # Level(input[4].type))
     => Shape(tree) =
          IF Level(input[4].type) > Level(input[2].type)
          THEN FoldRight(input, 1)
          ELSE FoldLeft(input, 5)
  /\ (Parsed /\ input = Line_2plus3times4)
     => Shape(tree) =
          NodeShape("OP_ADD", ValueShape(Num(2)),
                    NodeShape("OP_MUL", ValueShape(Num(3)), ValueShape(Num(4))))
  /\ (pc = "stringified" /\ input = Line_2plus3times4)
     => CString(expr_buf, 0) = <<"(", "2", "+", "(", "3", "*", "4", ")", ")">>

C2_Witness ==
  /\ pc = "stringified"
  /\ variant = "parse1.c"
  /\ input = Line_2plus3times4
  /\ tree.type = "OP_ADD"
  /\ tree.right.type = "OP_MUL"
  /\ CString(expr_buf, 0) = <<"(", "2", "+", "(", "3", "*", "4", ")", ")">>

\* C3: a chain p1 ^ p2 ^ ... ^ pn parses as p1^(p2^(...^pn)), and 2^3^2
\* evaluates to 512.
C3_PowerRightAssociative ==
  /\ (Parsed /\ IsChain(input, {"TOK_POWER"})) => Shape(tree) = FoldRight(input, 1)
  /\ (pc = "evaluated" /\ input = Line_2pow3pow2) => result = Num(512)

C3_Witness ==
  /\ pc = "evaluated"
  /\ input = Line_2pow3pow2
  /\ tree.type = "OP_POWER"
  /\ tree.right.type = "OP_POWER"
  /\ result = Num(512)

\* C4: a chain of operands joined by '+' and '-' only, or by '*' and '/'
\* only, parses folded from the left, ((a-b)-c), and 10-3-2 evaluates to 5.
C4_LeftAssociative ==
  /\ (Parsed /\ (IsChain(input, {"TOK_PLUS", "TOK_MINUS"})
                   \/ IsChain(input, {"TOK_MULTIPLY", "TOK_DIVIDE"})))
     => Shape(tree) = FoldLeft(input, Len(input) - 1)
  /\ (pc = "evaluated" /\ input = Line_10minus3minus2) => result = Num(5)

C4_Witness ==
  /\ pc = "evaluated"
  /\ input = Line_10minus3minus2
  /\ tree.type = "OP_SUB"
  /\ tree.left.type = "OP_SUB"
  /\ result = Num(5)

\* toks is  x = y = e TOK_END  with e an operand or operand op operand
IsChainedAssignment(toks) ==
  /\ Len(toks) \in {6, 8}
  /\ toks[1].type = "TOK_SYMBOL" /\ toks[2].type = "TOK_EQUAL"
  /\ toks[3].type = "TOK_SYMBOL" /\ toks[4].type = "TOK_EQUAL"
  /\ IF Len(toks) = 6 THEN toks[5].type \in OperandTokens
     ELSE IsChain(SubSeq(toks, 5, 8), ArithTokens)

\* C5: x = y = e parses, in parse.c and in parse1.c alike, as (x=(y=e)).
C5_ChainedAssignment ==
  (Parsed /\ IsChainedAssignment(input))
  => Shape(tree) =
       NodeShape("OP_ASSIGN", LeafOf(input[1]),
                 NodeShape("OP_ASSIGN", LeafOf(input[3]),
                           FoldLeft(SubSeq(input, 5, Len(input)), Len(input) - 5)))

\* toks is k '-' tokens, an operand and TOK_END
IsNegated(toks, k) ==
  /\ Len(toks) = k + 2
  /\ \A i \in 1..k : toks[i].type = "TOK_MINUS"
  /\ toks[k + 1].type \in OperandTokens
  /\ toks[k + 2].type = "TOK_END"

RECURSIVE Negate(_, _)
Negate(k, sh) ==
  IF k = 0 THEN sh ELSE NodeShape("UNARY_NEGATE", Negate(k - 1, sh), NULL)

\* C6: - p op q parses as ((-p) op q) for every operator op of the
\* expression grammar (+ - * / ^), '^' included, and k leading '-' before an
\* operand give exactly k nested negations.
C6_UnaryMinusBindsTightest ==
  /\ (Parsed /\ Len(input) = 5 /\ input[1].type = "TOK_MINUS"
        /\ IsChain(Tail(input), ArithTokens))
     => Shape(tree) =
          NodeShape(NodeOf(input[3].type),
                    NodeShape("UNARY_NEGATE", LeafOf(input[2]), NULL),
                    LeafOf(input[4]))
  /\ \A k \in 1..(MaxNeg + 1) :
       (Parsed /\ IsNegated(input, k)) => Shape(tree) = Negate(k, LeafOf(input[k + 1]))

C6_Witness ==
  /\ pc = "parsed"
  /\ Len(input) = 5
  /\ input[1].type = "TOK_MINUS"
  /\ input[2].type = "TOK_VALUE"
  /\ input[3].type = "TOK_POWER"
  /\ input[4].type = "TOK_VALUE"
  /\ tree # NULL
  /\ tree.type = "OP_POWER"
  /\ tree.left.type = "UNARY_NEGATE"

\* the state Parse starts from on the tokens of input
Start == [tokens |-> input, errmsg |-> NoMsg, heap |-> EmptyHeap]

\* C7: Parse returns a tree only with TOK_END next in the list; when the
\* top-level rule built a tree and another token follows, Parse returns NULL
\* and errmsg is "Syntax error on token <kind>" for that token's kind.
C7_TrailingTokenIsSyntaxError ==
  pc = "parsed" =>
    LET top == Rule("assignment", variant, NULL, Start)
        rest == top.st.tokens
    IN /\ tree # NULL => TOK_next_type(tokens) = "TOK_END"
       /\ (top.ret # NULL /\ TOK_next_type(rest) # "TOK_END")
          => /\ tree = NULL
             /\ errmsg = Msg("Syntax error on token %s",
                             <<TT_to_str(input[Len(input) - Len(rest) + 1].type)>>)

C7_Witness ==
  /\ pc = "parsed"
  /\ Len(input) = 3
  /\ input[1].type = "TOK_VALUE"
  /\ input[2].type = "TOK_VALUE"
  /\ tree = NULL
  /\ errmsg = Msg("Syntax error on token %s", <<"VALUE">>)
  /\ Len(tokens) = 2

RECURSIVE WellFormed(_)
WellFormed(t) ==
  /\ t # NULL
  /\ \/ IsLeaf(t)
     \/ t.type = "UNARY_NEGATE" /\ WellFormed(t.left)
     \/ t.type \notin {"VALUE", "SYMBOL", "UNARY_NEGATE"}
          /\ WellFormed(t.left) /\ WellFormed(t.right)

\* C8: every tree Parse returns is fully formed: a binary or assignment node
\* has two children, a negation has its operand (so a rule's syntax error
\* makes Parse return NULL).
C8_ReturnedTreeFullyFormed ==
  (pc = "parsed" /\ tree # NULL) => WellFormed(tree)

\* C9: when Parse returns NULL, every node it allocated has been freed, and
\* none was freed twice.
C9_NoLeakOnFailure ==
  (pc = "parsed" /\ tree = NULL)
  => (heap.live = {} /\ heap.twice = {} /\ heap.strs = 0)

C9_Witness ==
  /\ pc = "parsed"
  /\ Len(input) = 5
  /\ input[1].type = "TOK_OPEN_PAREN"
  /\ input[2].type = "TOK_VALUE"
  /\ input[3].type = "TOK_PLUS"
  /\ input[4].type = "TOK_VALUE"
  /\ tree = NULL
  /\ Len(tokens) = 1
  /\ heap = EmptyHeap

(***************************************************************************)
(* Properties of evaluation.                                               *)
(***************************************************************************)
\* the state a fresh call of ET_evaluate starts from on dictionary d
EvalStart(d) ==
  [dict |-> d, errmsg |-> NoMsg, aborted |-> FALSE, exact |-> TRUE,
   oracle |-> [crash |-> TRUE, key |-> <<"q">>]]

\* ET_evaluate is called on the tree in this step
Evaluates == pc = "built" /\ pc' # "built"

\* C1: evaluating the tree (n = v), v a number (0 and negatives included),
\* returns v without aborting and binds n to v in the dictionary, whatever n
\* was bound to; evaluating the symbol leaf n afterwards returns v and
\* writes no error message.
C1_AssignmentBindsAndReturns ==
  [][(Evaluates /\ tree.type = "OP_ASSIGN" /\ tree.left.type = "SYMBOL"
        /\ tree.right.type = "VALUE")
     => LET n == tree.left.symbol
            v == tree.right.value
            later == ET_evaluate(ET_symbol(EmptyHeap, n).node, EvalStart(dict'))
        IN /\ pc' = "evaluated"
           /\ result' = v
           /\ CD_contains(dict', n)
           /\ CD_retrieve(dict', n) = v
           /\ later.val = v
           /\ later.es.errmsg = NoMsg]_vars

\* C10: evaluating a symbol leaf whose name the dictionary does not hold
\* writes the undefined-variable message naming the symbol, returns NaN and
\* leaves the dictionary as it was.
C10_UndefinedSymbol ==
  [][(Evaluates /\ tree.type = "SYMBOL" /\ ~CD_contains(dict, tree.symbol))
     => /\ pc' = "evaluated"
        /\ isnan(result')
        /\ errmsg' = Msg("Undefined variable: %s", tree.symbol)
        /\ dict' = dict]_vars

C10_Witness ==
  /\ pc = "evaluated"
  /\ tree.type = "SYMBOL"
  /\ tree.symbol = <<"y">>
  /\ ~CD_contains(dict, <<"y">>)
  /\ CD_contains(dict, <<"x">>)
  /\ isnan(result)
  /\ errmsg = Msg("Undefined variable: %s", <<"y">>)

\* what the two children of the tree evaluate to, left before right
Operands ==
  LET l == ET_evaluate(tree.left, EvalStart(dict))
  IN [left |-> l, right |-> ET_evaluate(tree.right, l.es)]

\* C11: evaluating a division node whose right child evaluates to zero
\* writes the division-by-zero message and returns NaN, whatever the left
\* child evaluates to.
C11_DivisionByZero ==
  [][(Evaluates /\ tree.type = "OP_DIV"
        /\ ~Operands.right.es.aborted /\ IsZero(Operands.right.val))
     => /\ pc' = "evaluated"
        /\ isnan(result')
        /\ errmsg' = Msg("Error: Division by zero", <<>>)]_vars

C11_Witness ==
  /\ pc = "evaluated"
  /\ tree.type = "OP_DIV"
  /\ tree.left.type = "SYMBOL"
  /\ ~CD_contains(dict, tree.left.symbol)
  /\ tree.right.type = "OP_SUB"
  /\ isnan(result)
  /\ errmsg = Msg("Error: Division by zero", <<>>)

\* C12: evaluating a symbol leaf whose name the dictionary holds writes no
\* undefined-variable message, even when the value held is NaN.
C12_BoundSymbolIsDefined ==
  [][(Evaluates /\ tree.type = "SYMBOL" /\ CD_contains(dict, tree.symbol))
     => /\ pc' = "evaluated"
        /\ errmsg' = NoMsg
        /\ result' = CD_retrieve(dict, tree.symbol)]_vars

\* C13: evaluating an assignment node whose left child is no symbol leaf
\* writes an error message, returns NaN and stores nothing.
C13_AssignmentToNonSymbol ==
  [][(Evaluates /\ tree.type = "OP_ASSIGN" /\ tree.left.type # "SYMBOL")
     => /\ pc' = "evaluated"
        /\ errmsg' # NoMsg
        /\ isnan(result')
        /\ dict' = dict]_vars

(***************************************************************************)
(* Properties of rendering.                                                *)
(***************************************************************************)
\* the canonical string: a leaf is its number or name, a negation is (-X),
\* a binary or assignment node is (L op R)
RECURSIVE Canonical(_)
Canonical(sh) ==
  IF sh.type = "VALUE" THEN FormatG(sh.value)
  ELSE IF sh.type = "SYMBOL" THEN sh.symbol
  ELSE IF sh.type = "UNARY_NEGATE" THEN <<"(", "-">> \o Canonical(sh.left) \o <<")">>
  ELSE <<"(">> \o Canonical(sh.left)
       \o <<CASE sh.type = "OP_ADD" -> "+" [] sh.type = "OP_SUB" -> "-"
              [] sh.type = "OP_MUL" -> "*" [] sh.type = "OP_DIV" -> "/"
              [] sh.type = "OP_POWER" -> "^" [] sh.type = "OP_ASSIGN" -> "=">>
       \o Canonical(sh.right) \o <<")">>

\* C14: ET_tree2string writes only to buf[0] .. buf[buf_sz - 1], the
\* terminator included, whatever the tree and the capacity.
C14_WritesStayInBuffer ==
  pc = "rendered" => \A i \in DOMAIN expr_buf : i < buf_sz

\* ET_tree2string has returned for a tree that has a canonical string
Rendered == pc = "rendered" /\ WellFormed(tree)

\* C15: when the canonical string needs more than buf_sz - 1 characters,
\* the returned count is at least buf_sz or the last byte of the buffer is
\* the '$' marker.
C15_TruncationDetectable ==
  (Rendered /\ Len(Canonical(Shape(tree))) > buf_sz - 1)
  => \/ str_len >= buf_sz
     \/ (buf_sz - 1) \in DOMAIN expr_buf /\ expr_buf[buf_sz - 1] = "$"

\* C16: with buf_sz at least one more than the length n of the canonical
\* string, the buffer holds exactly the canonical string, terminated and
\* without '$', and n is returned.
C16_ExactWhenLargeEnough ==
  (Rendered /\ buf_sz >= Len(Canonical(Shape(tree))) + 1)
  => /\ CString(expr_buf, 0) = Canonical(Shape(tree))
     /\ Len(Canonical(Shape(tree))) \in DOMAIN expr_buf
     /\ expr_buf[Len(Canonical(Shape(tree)))] = NUL
     /\ \A i \in DOMAIN expr_buf : expr_buf[i] # "$"
     /\ str_len = Len(Canonical(Shape(tree)))

\* (ab=-12) rendered into 9 bytes, its 8 characters and the terminator
C16_Witness ==
  /\ pc = "rendered"
  /\ buf_sz = 9
  /\ tree.type = "OP_ASSIGN"
  /\ str_len = 8
  /\ CString(expr_buf, 0) = <<"(", "a", "b", "=", "-", "1", "2", ")">>
  /\ expr_buf[8] = NUL

(***************************************************************************)
(* Properties of the tokenizer.                                            *)
(***************************************************************************)
\* TOK_tokenize_input has returned
Tokenized == pc \in {"lexed", "lexerror"}

\* the end of the identifier characters from offset i on
RECURSIVE RunEnd(_, _)
RunEnd(str, i) ==
  IF isalnum(At(str, i)) \/ At(str, i) = "_" THEN RunEnd(str, i + 1) ELSE i

\* the names of a line, left to right: each starts at a letter or an
\* underscore outside a number and takes every identifier character
RECURSIVE NameRuns(_, _)
NameRuns(str, i) ==
  IF i >= Len(str) THEN <<>>
  ELSE IF isalpha(At(str, i)) \/ At(str, i) = "_"
  THEN <<[start |-> i, len |-> RunEnd(str, i) - i]>> \o NameRuns(str, RunEnd(str, i))
  ELSE IF isdigit(At(str, i)) THEN NameRuns(str, DigitsEnd(str, i))
  ELSE NameRuns(str, i + 1)

\* besides names the line holds only blanks, integers, operators, parentheses
PlainLine == \A j \in 1..Len(line) : line[j] \notin {".", "$"}

SymbolTokens == SelectSeq(tokens, LAMBDA t : t.type = "TOK_SYMBOL")

\* C17: a line whose names are each 1 to 31 characters long is tokenized,
\* with one symbol token per name, in order, carrying the name, whatever
\* offset the name starts at.
C17_NameAtAnyOffset ==
  LET runs == NameRuns(line, 0)
  IN (Tokenized /\ PlainLine /\ \A r \in 1..Len(runs) : runs[r].len <= SYMBOL_LIMIT)
     => /\ pc = "lexed"
        /\ Len(SymbolTokens) = Len(runs)
        /\ \A r \in 1..Len(runs) :
             SymbolTokens[r].symbol
               = SubSeq(line, runs[r].start + 1, runs[r].start + runs[r].len)

\* C18: a line with a name of 32 or more characters is not tokenized, and
\* the message cites the 1-based position at which that name starts.
C18_LongNameIsLexicalError ==
  LET runs == NameRuns(line, 0)
  IN (Tokenized /\ PlainLine /\ Len(runs) = 1 /\ runs[1].len > SYMBOL_LIMIT)
     => /\ pc = "lexerror"
        /\ errmsg.arg[1] = runs[1].start + 1

(***************************************************************************)
(* Properties of the dictionary.                                           *)
(***************************************************************************)
PresentKeys == {key \in DictKeys : stored[key] # Absent}

\* C19: after any CD_store and CD_delete calls, rehashing and re-storing
\* of deleted keys included, CD_contains holds of exactly the keys stored
\* and not deleted since, CD_retrieve gives such a key's last stored value
\* and the not-found value for every other key, and CD_size is the number
\* of such keys.
C19_DictionaryIsAMap ==
  pc = "dict" =>
    /\ \A key \in DictKeys :
         IF key \in PresentKeys
         THEN CD_contains(dict, key) /\ CD_retrieve(dict, key) = stored[key]
         ELSE ~CD_contains(dict, key) /\ CD_retrieve(dict, key) = NAN
    /\ CD_size_asserts(dict)
    /\ CD_size(dict) = Cardinality(PresentKeys)

\* rehashed once, q stored again after its deletion, behind a and the slot
\* q was deleted from
C19_Witness ==
  /\ pc = "dict"
  /\ dict.capacity = 2 * DEFAULT_DICT_CAPACITY
  /\ dict.num_deleted > 0
  /\ stored[<<"a">>] = NAN
  /\ stored[<<"q">>] = Num(1)
  /\ \E i \in SlotsOf(dict, "SLOT_DELETED") :
       dict.slot[i].key = <<"q">> /\ isnan(dict.slot[i].value)
  /\ CD_contains(dict, <<"a">>)
  /\ CD_retrieve(dict, <<"q">>) = Num(1)
  /\ CD_size(dict) = 2

(***************************************************************************)
(* Properties of ET_count and ET_depth.                                    *)
(***************************************************************************)
\* the nodes of a tree, each named by the path from the root to it
\* (0 for a left child, 1 for a right child)
RECURSIVE Paths(_)
Paths(t) ==
  IF t = NULL THEN {}
  ELSE IF IsLeaf(t) THEN {<<>>}
  ELSE {<<>>} \cup {<<0>> \o p : p \in Paths(t.left)}
             \cup {<<1>> \o p : p \in Paths(t.right)}

\* the number of nodes on the longest path from the root
Longest(t) ==
  IF t = NULL THEN 0
  ELSE 1 + (CHOOSE n \in {Len(p) : p \in Paths(t)} :
              \A p \in Paths(t) : Len(p) <= n)

Line_1plus2times3 ==
  <<Lit(1), Op("TOK_PLUS"), Lit(2), Op("TOK_MULTIPLY"), Lit(3), Op("TOK_END")>>

\* C20: ET_count is the number of nodes of the tree (a negation counts
\* itself and its operand), ET_depth the number of nodes on its longest
\* path from the root; a leaf has count 1 and depth 1, NULL has count 0 and
\* depth 0, and the parse of 1+2*3 has count 5 and depth 3.
C20_CountAndDepth ==
  Parsed =>
    /\ ET_count(tree) = Cardinality(Paths(tree))
    /\ ET_depth(tree) = Longest(tree)
    /\ tree = NULL => (ET_count(tree) = 0 /\ ET_depth(tree) = 0)
    /\ (tree # NULL /\ IsLeaf(tree)) => (ET_count(tree) = 1 /\ ET_depth(tree) = 1)
    /\ (tree # NULL /\ tree.type = "UNARY_NEGATE")
         => ET_count(tree) = 1 + ET_count(tree.left)
    /\ input = Line_1plus2times3
         => /\ TOK_tokenize_input(<<"1", "+", "2", "*", "3">>, NoMsg).tokens = input
            /\ ET_count(tree) = 5
            /\ ET_depth(tree) = 3

C20_Witness ==
  /\ pc = "parsed"
  /\ input = Line_1plus2times3
  /\ tree # NULL
  /\ tree.type = "OP_ADD"
  /\ tree.right.type = "OP_MUL"
  /\ ET_count(tree) = 5
  /\ ET_depth(tree) = 3

(***************************************************************************)
(* Properties of a failed assignment.                                      *)
(***************************************************************************)
\* evaluating the right-hand side of the tree on its own writes a message
RightSideFails ==
  LET r == ET_evaluate(tree.right, EvalStart(dict))
  IN ~r.es.aborted /\ r.es.errmsg # NoMsg

\* C22: when the right-hand side of an assignment n = e reports an
\* evaluation error (undefined symbol, division by zero), the dictionary is
\* left as it was: n gets no new binding and keeps the value it had.
C22_FailedAssignmentStoresNothing ==
  [][(Evaluates /\ tree.type = "OP_ASSIGN" /\ tree.left.type = "SYMBOL"
        /\ RightSideFails)
     => /\ CD_contains(dict', tree.left.symbol) = CD_contains(dict, tree.left.symbol)
        /\ CD_retrieve(dict', tree.left.symbol) = CD_retrieve(dict, tree.left.symbol)
        /\ CD_size(dict') = CD_size(dict)]_vars

(***************************************************************************)
(* Properties of the end-of-input token.                                   *)
(***************************************************************************)
\* the list is not empty, and its last token is its only TOK_END
EndsInOneEnd(toks) ==
  /\ CL_length(toks) > 0
  /\ \A i \in 1..Len(toks) : (toks[i].type = "TOK_END") = (i = Len(toks))

\* what is left of the tokenized list after k calls of TOK_consume
Consumed(k) == SubSeq(input, k + 1, Len(input))

\* C21: a tokenized line's list ends in its only TOK_END (a line of blanks
\* or no characters gives that token alone); every list Parse passes
\* through while consuming still ends in it, so TOK_END is never consumed,
\* and where the first token is a symbol the token after it exists.
C21_EndTokenStaysLast ==
  /\ pc = "lexed" =>
       /\ EndsInOneEnd(tokens)
       /\ (\A j \in 1..Len(line) : isspace(line[j])) => CL_length(tokens) = 1
  /\ (pc = "parsed" /\ line # <<>>) =>
       /\ EndsInOneEnd(tokens)
       /\ \E k \in 0..(Len(input) - 1) :
            /\ tokens = Consumed(k)
            /\ \A j \in 0..k :
                 /\ EndsInOneEnd(Consumed(j))
                 /\ TOK_next_type(Consumed(j)) = "TOK_SYMBOL"
                      => CL_length(Consumed(j)) >= 2

\* x = y = 5 parsed by parse1.c down to the end token
C21_Witness ==
  /\ pc = "parsed"
  /\ variant = "parse1.c"
  /\ line = <<"x", " ", "=", " ", "y", " ", "=", " ", "5">>
  /\ Len(input) = 6
  /\ tree # NULL
  /\ tokens = <<Token("TOK_END", Num(0), <<>>)>>

====
